---- MODULE Spec2Model ----
(***************************************************************************)
(* Proof-of-existence pallet (pallets/template/src/lib.rs).                *)
(*                                                                         *)
(* State: the storage map Proofs (proof |-> (owner, block)), the block     *)
(* number of frame_system, and the observable outcome of the extrinsic     *)
(* dispatched last in the current block: the call, its DispatchResult and  *)
(* the events it deposited.  `revoked` is a history variable: the proofs   *)
(* that were successfully revoked at least once.  The other variables are  *)
(* observers used by SpecPair, SpecScenario, SpecHist and SpecAuthority.   *)
(***************************************************************************)
EXTENDS Integers, Sequences, FiniteSets, TLC

VARIABLES Proofs, block_number, call, result, events, revoked

\* Observers, constant under Spec:
\*   other, pending, turn   a second registry fed the same calls (SpecPair)
\*   scen                   how much of the scenario of the specification
\*                          has been replayed (SpecScenario)
\*   last_height            per proof, the block of the last successful
\*                          create or transfer (SpecHist)
\*   former                 per proof, the owner before the last transfer
\*                          (SpecAuthority)
VARIABLES other, pending, turn, scen, last_height, former

pairVars == <<other, pending, turn>>

histVars == <<last_height, former>>

observers == <<pairVars, scen, histVars>>

vars == <<Proofs, block_number, call, result, events, revoked,
          other, pending, turn, scen, last_height, former>>

\* ---- bounds ----
MaxBlock == 2
MaxProofLen == 1
MaxByte == 0

\* ---- value domains ----
AccountId == {"Alice", "Bob", "Carol"}

DefaultAccountId == "Default"

NoReceiver == "NoReceiver"

Bytes == 0..MaxByte

\* Vec<u8>: byte strings up to MaxProofLen, the empty one included
ProofSet == UNION {[1..n -> Bytes] : n \in 0..MaxProofLen}

\* frame_system::RawOrigin
Origin ==
  {[kind |-> "Signed", who |-> a] : a \in AccountId}
    \cup {[kind |-> "Root", who |-> DefaultAccountId],
          [kind |-> "None", who |-> DefaultAccountId]}

Signed(a) == [kind |-> "Signed", who |-> a]

Error == {"ProofAlreadyClaimed", "NoSuchProof", "NotProofOwner"}

BadOrigin == "BadOrigin"

\* ---- events ----
\* mutant: the event carries the wrong tag
ClaimCreated_as_revoked(who, claim) == <<"ClaimRevoked", who, claim>>

ClaimCreated(who, claim) == <<"ClaimCreated", who, claim>>

ClaimRevoked(who, claim) == <<"ClaimRevoked", who, claim>>

ClaimChanged(who, to, claim) == <<"ClaimChanged", who, to, claim>>

\* ---- StorageMap accessors ----
EmptyMap == [k \in {} |-> <<DefaultAccountId, 0>>]

\* mutant: the empty byte string is never found
contains_key_nonempty(m, k) == k \in DOMAIN m /\ k # <<>>

contains_key(m, k) == k \in DOMAIN m

get(m, k) == IF k \in DOMAIN m THEN m[k] ELSE <<DefaultAccountId, 0>>

\* mutant: writes only when the key is new
insert_if_absent(m, k, v) ==
  IF k \in DOMAIN m THEN m
  ELSE [x \in DOMAIN m \cup {k} |-> IF x = k THEN v ELSE m[x]]

insert(m, k, v) == [x \in DOMAIN m \cup {k} |-> IF x = k THEN v ELSE m[x]]

\* mutant: leaves a tombstone under the key
remove_tombstone(m, k) ==
  [x \in DOMAIN m |-> IF x = k THEN <<DefaultAccountId, 0>> ELSE m[x]]

\* mutant: clears the whole map
remove_all(m, k) == [x \in {} |-> <<DefaultAccountId, 0>>]

\* mutant: removes nothing
remove_nothing(m, k) == m

remove(m, k) == [x \in DOMAIN m \ {k} |-> m[x]]

\* ---- frame_system ----
ensure_signed(origin) ==
  IF origin.kind = "Signed"
  THEN [ok |-> TRUE, who |-> origin.who]
  ELSE [ok |-> FALSE, who |-> DefaultAccountId]

deposit_event(log, e) == Append(log, e)

NoTransfer == [from |-> NoReceiver, to |-> NoReceiver]

NoCall ==
  [op |-> "none", origin |-> [kind |-> "None", who |-> DefaultAccountId],
   proof |-> <<>>, receiver |-> NoReceiver]

\* an extrinsic that returns Err(e): nothing written, nothing deposited
Fail(e) ==
  /\ result' = e
  /\ events' = <<>>
  /\ UNCHANGED <<Proofs, revoked>>

\* the runtime state after construction
Genesis ==
  /\ Proofs = EmptyMap
  /\ block_number = 0
  /\ call = NoCall
  /\ result = "none"
  /\ events = <<>>
  /\ revoked = {}

ObserversInit ==
  /\ other = EmptyMap
  /\ pending = [call |-> NoCall, result |-> "none", events |-> <<>>]
  /\ turn = "off"
  /\ scen = -1
  /\ last_height = [p \in ProofSet |-> -1]
  /\ former = [p \in ProofSet |-> NoTransfer]

Init == Genesis /\ ObserversInit

\* ---- dispatchables ----
\* mutant: no contains_key check, an existing claim is overwritten
create_claim_overwrite(origin, proof) ==
  LET sender == ensure_signed(origin) IN
  /\ call' = [op |-> "create_claim", origin |-> origin, proof |-> proof,
              receiver |-> NoReceiver]
  /\ UNCHANGED block_number
  /\ IF ~sender.ok THEN Fail(BadOrigin)
     ELSE /\ Proofs' = insert(Proofs, proof, <<sender.who, block_number>>)
          /\ events' = deposit_event(<<>>, ClaimCreated(sender.who, proof))
          /\ result' = "Ok"
          /\ UNCHANGED revoked

\* mutant: the stored height is read from a node-local clock, not from the
\* block number
create_claim_local_clock(origin, proof) ==
  LET sender == ensure_signed(origin) IN
  /\ call' = [op |-> "create_claim", origin |-> origin, proof |-> proof,
              receiver |-> NoReceiver]
  /\ UNCHANGED block_number
  /\ IF ~sender.ok THEN Fail(BadOrigin)
     ELSE IF contains_key(Proofs, proof) THEN Fail("ProofAlreadyClaimed")
     ELSE \E clock \in 0..block_number :
          /\ Proofs' = insert(Proofs, proof, <<sender.who, clock>>)
          /\ events' = deposit_event(<<>>, ClaimCreated(sender.who, proof))
          /\ result' = "Ok"
          /\ UNCHANGED revoked

create_claim(origin, proof) ==
  LET sender == ensure_signed(origin) IN
  /\ call' = [op |-> "create_claim", origin |-> origin, proof |-> proof,
              receiver |-> NoReceiver]
  /\ UNCHANGED block_number
  /\ IF ~sender.ok THEN Fail(BadOrigin)
     ELSE IF contains_key(Proofs, proof) THEN Fail("ProofAlreadyClaimed")
     ELSE LET current_block == block_number IN
          /\ Proofs' = insert(Proofs, proof, <<sender.who, current_block>>)
          /\ events' = deposit_event(<<>>, ClaimCreated(sender.who, proof))
          /\ result' = "Ok"
          /\ UNCHANGED revoked

\* mutant: the owner comparison is missing
revoke_claim_any_sender(origin, proof) ==
  LET sender == ensure_signed(origin) IN
  /\ call' = [op |-> "revoke_claim", origin |-> origin, proof |-> proof,
              receiver |-> NoReceiver]
  /\ UNCHANGED block_number
  /\ IF ~sender.ok THEN Fail(BadOrigin)
     ELSE IF ~contains_key(Proofs, proof) THEN Fail("NoSuchProof")
     ELSE /\ Proofs' = remove(Proofs, proof)
          /\ events' = deposit_event(<<>>, ClaimRevoked(sender.who, proof))
          /\ result' = "Ok"
          /\ revoked' = revoked \cup {proof}

\* mutant: the owner comparison is inverted
revoke_claim_inverted_check(origin, proof) ==
  LET sender == ensure_signed(origin) IN
  /\ call' = [op |-> "revoke_claim", origin |-> origin, proof |-> proof,
              receiver |-> NoReceiver]
  /\ UNCHANGED block_number
  /\ IF ~sender.ok THEN Fail(BadOrigin)
     ELSE IF ~contains_key(Proofs, proof) THEN Fail("NoSuchProof")
     ELSE LET owner == get(Proofs, proof)[1] IN
          IF sender.who = owner THEN Fail("NotProofOwner")
          ELSE /\ Proofs' = remove(Proofs, proof)
               /\ events' = deposit_event(<<>>, ClaimRevoked(sender.who, proof))
               /\ result' = "Ok"
               /\ revoked' = revoked \cup {proof}

\* mutant: the owner is compared before the key is known to exist
revoke_claim_owner_first(origin, proof) ==
  LET sender == ensure_signed(origin) IN
  /\ call' = [op |-> "revoke_claim", origin |-> origin, proof |-> proof,
              receiver |-> NoReceiver]
  /\ UNCHANGED block_number
  /\ IF ~sender.ok THEN Fail(BadOrigin)
     ELSE LET owner == get(Proofs, proof)[1] IN
          IF sender.who # owner THEN Fail("NotProofOwner")
          ELSE IF ~contains_key(Proofs, proof) THEN Fail("NoSuchProof")
          ELSE /\ Proofs' = remove(Proofs, proof)
               /\ events' = deposit_event(<<>>, ClaimRevoked(sender.who, proof))
               /\ result' = "Ok"
               /\ revoked' = revoked \cup {proof}

\* mutant: a missing key is reported with the error of create_claim
revoke_claim_wrong_error(origin, proof) ==
  LET sender == ensure_signed(origin) IN
  /\ call' = [op |-> "revoke_claim", origin |-> origin, proof |-> proof,
              receiver |-> NoReceiver]
  /\ UNCHANGED block_number
  /\ IF ~sender.ok THEN Fail(BadOrigin)
     ELSE IF ~contains_key(Proofs, proof) THEN Fail("ProofAlreadyClaimed")
     ELSE LET owner == get(Proofs, proof)[1] IN
          IF sender.who # owner THEN Fail("NotProofOwner")
          ELSE /\ Proofs' = remove(Proofs, proof)
               /\ events' = deposit_event(<<>>, ClaimRevoked(sender.who, proof))
               /\ result' = "Ok"
               /\ revoked' = revoked \cup {proof}

revoke_claim(origin, proof) ==
  LET sender == ensure_signed(origin) IN
  /\ call' = [op |-> "revoke_claim", origin |-> origin, proof |-> proof,
              receiver |-> NoReceiver]
  /\ UNCHANGED block_number
  /\ IF ~sender.ok THEN Fail(BadOrigin)
     ELSE IF ~contains_key(Proofs, proof) THEN Fail("NoSuchProof")
     ELSE LET owner == get(Proofs, proof)[1] IN
          IF sender.who # owner THEN Fail("NotProofOwner")
          ELSE /\ Proofs' = remove(Proofs, proof)
               /\ events' = deposit_event(<<>>, ClaimRevoked(sender.who, proof))
               /\ result' = "Ok"
               /\ revoked' = revoked \cup {proof}

\* mutant: the entry is written before the owner comparison
change_owner_claim_write_first(origin, receiver, proof) ==
  LET sender == ensure_signed(origin) IN
  /\ call' = [op |-> "change_owner_claim", origin |-> origin, proof |-> proof,
              receiver |-> receiver]
  /\ UNCHANGED block_number
  /\ IF ~sender.ok THEN Fail(BadOrigin)
     ELSE IF ~contains_key(Proofs, proof) THEN Fail("NoSuchProof")
     ELSE LET owner == get(Proofs, proof)[1] IN
          /\ Proofs' = insert(Proofs, proof, <<receiver, block_number>>)
          /\ UNCHANGED revoked
          /\ IF sender.who # owner
             THEN result' = "NotProofOwner" /\ events' = <<>>
             ELSE /\ events' = deposit_event(<<>>,
                                  ClaimChanged(sender.who, receiver, proof))
                  /\ result' = "Ok"

\* mutant: a transfer to oneself returns early without writing
change_owner_claim_skip_self(origin, receiver, proof) ==
  LET sender == ensure_signed(origin) IN
  /\ call' = [op |-> "change_owner_claim", origin |-> origin, proof |-> proof,
              receiver |-> receiver]
  /\ UNCHANGED block_number
  /\ IF ~sender.ok THEN Fail(BadOrigin)
     ELSE IF ~contains_key(Proofs, proof) THEN Fail("NoSuchProof")
     ELSE LET owner == get(Proofs, proof)[1] IN
          IF sender.who # owner THEN Fail("NotProofOwner")
          ELSE /\ Proofs' = IF receiver = sender.who THEN Proofs
                            ELSE insert(Proofs, proof, <<receiver, block_number>>)
               /\ events' = deposit_event(<<>>,
                               ClaimChanged(sender.who, receiver, proof))
               /\ result' = "Ok"
               /\ UNCHANGED revoked

\* mutant: the owner comparison is missing in the transfer
change_owner_claim_any_sender(origin, receiver, proof) ==
  LET sender == ensure_signed(origin) IN
  /\ call' = [op |-> "change_owner_claim", origin |-> origin, proof |-> proof,
              receiver |-> receiver]
  /\ UNCHANGED block_number
  /\ IF ~sender.ok THEN Fail(BadOrigin)
     ELSE IF ~contains_key(Proofs, proof) THEN Fail("NoSuchProof")
     ELSE /\ Proofs' = insert(Proofs, proof, <<receiver, block_number>>)
          /\ events' = deposit_event(<<>>,
                          ClaimChanged(sender.who, receiver, proof))
          /\ result' = "Ok"
          /\ UNCHANGED revoked

\* mutant: the transfer keeps the height the claim was stored with
change_owner_claim_keeps_height(origin, receiver, proof) ==
  LET sender == ensure_signed(origin) IN
  /\ call' = [op |-> "change_owner_claim", origin |-> origin, proof |-> proof,
              receiver |-> receiver]
  /\ UNCHANGED block_number
  /\ IF ~sender.ok THEN Fail(BadOrigin)
     ELSE IF ~contains_key(Proofs, proof) THEN Fail("NoSuchProof")
     ELSE LET owner == get(Proofs, proof)[1] IN
          IF sender.who # owner THEN Fail("NotProofOwner")
          ELSE /\ Proofs' = insert(Proofs, proof,
                                   <<receiver, get(Proofs, proof)[2]>>)
               /\ events' = deposit_event(<<>>,
                               ClaimChanged(sender.who, receiver, proof))
               /\ result' = "Ok"
               /\ UNCHANGED revoked

\* mutant: the sender is stored instead of the receiver
change_owner_claim_keeps_sender(origin, receiver, proof) ==
  LET sender == ensure_signed(origin) IN
  /\ call' = [op |-> "change_owner_claim", origin |-> origin, proof |-> proof,
              receiver |-> receiver]
  /\ UNCHANGED block_number
  /\ IF ~sender.ok THEN Fail(BadOrigin)
     ELSE IF ~contains_key(Proofs, proof) THEN Fail("NoSuchProof")
     ELSE LET owner == get(Proofs, proof)[1] IN
          IF sender.who # owner THEN Fail("NotProofOwner")
          ELSE /\ Proofs' = insert(Proofs, proof, <<sender.who, block_number>>)
               /\ events' = deposit_event(<<>>,
                               ClaimChanged(sender.who, receiver, proof))
               /\ result' = "Ok"
               /\ UNCHANGED revoked

change_owner_claim(origin, receiver, proof) ==
  LET sender == ensure_signed(origin) IN
  /\ call' = [op |-> "change_owner_claim", origin |-> origin, proof |-> proof,
              receiver |-> receiver]
  /\ UNCHANGED block_number
  /\ IF ~sender.ok THEN Fail(BadOrigin)
     ELSE IF ~contains_key(Proofs, proof) THEN Fail("NoSuchProof")
     ELSE LET owner == get(Proofs, proof)[1] IN
          IF sender.who # owner THEN Fail("NotProofOwner")
          ELSE LET current_block == block_number IN
               /\ Proofs' = insert(Proofs, proof, <<receiver, current_block>>)
               /\ events' = deposit_event(<<>>,
                               ClaimChanged(sender.who, receiver, proof))
               /\ result' = "Ok"
               /\ UNCHANGED revoked

\* frame_system opens the next block: the number grows, the event log and
\* the record of the last extrinsic are reset
AdvanceBlock ==
  /\ block_number < MaxBlock
  /\ block_number' = block_number + 1
  /\ call' = NoCall
  /\ result' = "none"
  /\ events' = <<>>
  /\ UNCHANGED <<Proofs, revoked>>

Next ==
  \/ \E origin \in Origin, proof \in ProofSet :
        create_claim(origin, proof) /\ UNCHANGED observers
  \/ \E origin \in Origin, proof \in ProofSet :
        revoke_claim(origin, proof) /\ UNCHANGED observers
  \/ \E origin \in Origin, receiver \in AccountId, proof \in ProofSet :
        change_owner_claim(origin, receiver, proof) /\ UNCHANGED observers
  \/ AdvanceBlock /\ UNCHANGED observers

Spec == Init /\ [][Next]_vars

TypeOK ==
  /\ DOMAIN Proofs \subseteq ProofSet
  /\ \A p \in DOMAIN Proofs :
        Proofs[p][1] \in AccountId /\ Proofs[p][2] \in 0..block_number
  /\ block_number \in 0..MaxBlock
  /\ call.op \in {"none", "create_claim", "revoke_claim", "change_owner_claim"}
  /\ result \in Error \cup {"none", "Ok", BadOrigin}
  /\ revoked \subseteq ProofSet
\* ---- properties ----
IsRevoke(p, c) ==
  call'.op = "revoke_claim" /\ call'.proof = p /\ call'.origin = Signed(c)

IsChange(p, c) ==
  call'.op = "change_owner_claim" /\ call'.proof = p /\ call'.origin = Signed(c)

IsCreate(p, c) ==
  call'.op = "create_claim" /\ call'.proof = p /\ call'.origin = Signed(c)

\* C1: ownership gate. For every proof p present in the ledger and every
\* signed caller c other than the stored owner, revoke_claim(c, p) and
\* change_owner_claim(c, r, p) (any receiver, any block) return NotProofOwner
\* and leave the ledger unchanged.
OwnershipGate ==
  [][\A p \in DOMAIN Proofs, c \in AccountId :
       ((IsRevoke(p, c) \/ IsChange(p, c)) /\ c # Proofs[p][1])
          => (result' = "NotProofOwner" /\ Proofs' = Proofs)]_vars

OwnershipGateWitness ==
  /\ call.op = "change_owner_claim"
  /\ call.origin.kind = "Signed"
  /\ call.receiver = call.origin.who
  /\ result = "NotProofOwner"
  /\ call.proof \in DOMAIN Proofs
  /\ Proofs[call.proof][1] # call.origin.who

\* C2: uniqueness. create_claim by any signed caller (the owner included) on
\* a proof that is present returns ProofAlreadyClaimed and the stored owner
\* and block of that proof, and the whole ledger, stay as they were.
Uniqueness ==
  [][\A p \in DOMAIN Proofs, b \in AccountId :
       IsCreate(p, b)
          => /\ result' = "ProofAlreadyClaimed"
             /\ p \in DOMAIN Proofs'
             /\ Proofs'[p] = Proofs[p]
             /\ Proofs' = Proofs]_vars

UniquenessWitness ==
  /\ call.op = "create_claim"
  /\ result = "ProofAlreadyClaimed"
  /\ call.proof \in DOMAIN Proofs
  /\ Proofs[call.proof][1] # call.origin.who
  /\ Proofs[call.proof][2] < block_number

\* C3: existence precedence. For every proof p absent from the ledger (never
\* created, or created and revoked) and every signed caller, revoke_claim and
\* change_owner_claim return NoSuchProof, never NotProofOwner.
ExistencePrecedence ==
  [][\A p \in ProofSet \ DOMAIN Proofs, c \in AccountId :
       (IsRevoke(p, c) \/ IsChange(p, c)) => result' = "NoSuchProof"]_vars

ExistencePrecedenceWitness ==
  /\ call.op = "revoke_claim"
  /\ call.origin.kind = "Signed"
  /\ result = "NoSuchProof"
  /\ call.proof \in revoked
  /\ call.proof \notin DOMAIN Proofs

\* C4: no partial mutation on failure. Every call of the three dispatchables
\* that returns an error leaves the whole ledger equal to the ledger before
\* the call and deposits no event.
NoPartialMutation ==
  [][(call'.op # "none" /\ result' # "Ok")
        => (Proofs' = Proofs /\ events' = <<>>)]_vars

NoPartialMutationWitness ==
  /\ call.op = "change_owner_claim"
  /\ result = "NotProofOwner"
  /\ events = <<>>
  /\ call.proof \in DOMAIN Proofs
  /\ Proofs[call.proof][1] \notin {call.origin.who, call.receiver}

\* C5: create_claim success. On an absent proof p, create_claim by any signed
\* caller c returns Ok, inserts exactly p -> (c, current block), keeps every
\* other entry, and deposits exactly ClaimCreated(c, p).
CreateSuccess ==
  [][\A p \in ProofSet \ DOMAIN Proofs, c \in AccountId :
       IsCreate(p, c)
          => /\ result' = "Ok"
             /\ DOMAIN Proofs' = DOMAIN Proofs \cup {p}
             /\ Proofs'[p] = <<c, block_number>>
             /\ \A q \in DOMAIN Proofs : Proofs'[q] = Proofs[q]
             /\ events' = << <<"ClaimCreated", c, p>> >>]_vars

CreateSuccessWitness ==
  /\ call.op = "create_claim"
  /\ result = "Ok"
  /\ call.proof \in DOMAIN Proofs
  /\ Proofs[call.proof] = <<call.origin.who, block_number>>
  /\ block_number > 0
  /\ events = << <<"ClaimCreated", call.origin.who, call.proof>> >>
\* C6: change_owner_claim success. On a present proof p whose stored owner is
\* the signed caller c, change_owner_claim(c, r, p) returns Ok for every
\* receiver r (c itself included), overwrites the entry with
\* p -> (r, current block), keeps the key set and every other entry, and
\* deposits exactly ClaimChanged(c, r, p).
ChangeOwnerSuccess ==
  [][\A p \in DOMAIN Proofs, c \in AccountId, r \in AccountId :
       (IsChange(p, c) /\ call'.receiver = r /\ c = Proofs[p][1])
          => /\ result' = "Ok"
             /\ DOMAIN Proofs' = DOMAIN Proofs
             /\ Proofs'[p] = <<r, block_number>>
             /\ \A q \in DOMAIN Proofs \ {p} : Proofs'[q] = Proofs[q]
             /\ events' = << <<"ClaimChanged", c, r, p>> >>]_vars

ChangeOwnerSuccessWitness ==
  /\ call.op = "change_owner_claim"
  /\ result = "Ok"
  /\ call.receiver # call.origin.who
  /\ call.proof \in DOMAIN Proofs
  /\ Proofs[call.proof] = <<call.receiver, block_number>>
  /\ block_number > 0
  /\ events = << <<"ClaimChanged", call.origin.who, call.receiver, call.proof>> >>

\* C7: revoke_claim success. On a present proof p whose stored owner is the
\* signed caller c, revoke_claim(c, p) returns Ok, removes the key p (p is
\* absent afterwards, every other entry is kept), and deposits exactly
\* ClaimRevoked(c, p).
RevokeSuccess ==
  [][\A p \in DOMAIN Proofs, c \in AccountId :
       (IsRevoke(p, c) /\ c = Proofs[p][1])
          => /\ result' = "Ok"
             /\ DOMAIN Proofs' = DOMAIN Proofs \ {p}
             /\ \A q \in DOMAIN Proofs \ {p} : Proofs'[q] = Proofs[q]
             /\ events' = << <<"ClaimRevoked", c, p>> >>]_vars

RevokeSuccessWitness ==
  /\ call.op = "revoke_claim"
  /\ result = "Ok"
  /\ call.proof \notin DOMAIN Proofs
  /\ call.proof \in revoked
  /\ DOMAIN Proofs # {}
  /\ events = << <<"ClaimRevoked", call.origin.who, call.proof>> >>

\* C8: revoke then re-create. Right after a successful revoke_claim on p the
\* key p is absent; and on a proof p that was revoked and is absent,
\* create_claim by any signed caller b returns Ok and leaves p -> (b, current
\* block).
RevokeThenRecreate ==
  /\ []((call.op = "revoke_claim" /\ result = "Ok")
           => call.proof \notin DOMAIN Proofs)
  /\ [][\A p \in revoked \ DOMAIN Proofs, b \in AccountId :
          IsCreate(p, b)
             => /\ result' = "Ok"
                /\ p \in DOMAIN Proofs'
                /\ Proofs'[p] = <<b, block_number>>]_vars

RevokeThenRecreateWitness ==
  /\ call.op = "create_claim"
  /\ result = "Ok"
  /\ call.proof \in revoked
  /\ call.proof \in DOMAIN Proofs
  /\ Proofs[call.proof] = <<call.origin.who, block_number>>

\* C9: self-transfer. On a present proof p owned by a,
\* change_owner_claim(a, a, p) returns Ok, keeps owner = a, sets the stored
\* block to the current block, and deposits ClaimChanged(a, a, p).
SelfTransfer ==
  [][\A p \in DOMAIN Proofs, a \in AccountId :
       (IsChange(p, a) /\ call'.receiver = a /\ a = Proofs[p][1])
          => /\ result' = "Ok"
             /\ p \in DOMAIN Proofs'
             /\ Proofs'[p][1] = a
             /\ Proofs'[p][2] = block_number
             /\ events' = << <<"ClaimChanged", a, a, p>> >>]_vars

SelfTransferWitness ==
  /\ call.op = "change_owner_claim"
  /\ result = "Ok"
  /\ call.receiver = call.origin.who
  /\ call.proof \in DOMAIN Proofs
  /\ Proofs[call.proof] = <<call.origin.who, block_number>>
  /\ block_number > 0

EventTag(op) ==
  CASE op = "create_claim" -> "ClaimCreated"
    [] op = "revoke_claim" -> "ClaimRevoked"
    [] op = "change_owner_claim" -> "ClaimChanged"

ErrorsOf(op) ==
  IF op = "create_claim" THEN {"ProofAlreadyClaimed"}
  ELSE {"NoSuchProof", "NotProofOwner"}

ExpectedOutcome ==
  \/ result = "Ok" /\ Len(events) = 1 /\ events[1][1] = EventTag(call.op)
  \/ result \in ErrorsOf(call.op) /\ events = <<>>

\* C10 as stated: every invocation of the three dispatchables, for every
\* input, yields either one event with the tag of the operation, or one of
\* ProofAlreadyClaimed (create_claim only), NoSuchProof, NotProofOwner
\* (revoke_claim and change_owner_claim only); no other failure exists.
OutcomeTaxonomyAnyInput ==
  call.op # "none" => ExpectedOutcome

\* C10 amended: the taxonomy holds for every invocation with a signed origin;
\* an invocation whose origin is not signed returns BadOrigin and deposits no
\* event.
OutcomeTaxonomy ==
  call.op # "none" =>
     IF call.origin.kind = "Signed" THEN ExpectedOutcome
     ELSE result = BadOrigin /\ events = <<>>

OutcomeTaxonomyWitness ==
  /\ call.op = "revoke_claim"
  /\ call.origin.kind = "Signed"
  /\ result = "NoSuchProof"
  /\ events = <<>>
  /\ DOMAIN Proofs # {}
\* ---- two registries fed the same calls ----
\* The ledger of the second registry is kept in `other`.  Each call is
\* dispatched on the first registry, the ledgers are exchanged, the same call
\* is dispatched on the second registry at the same block, and the ledgers
\* are exchanged back.  Only the ledger is exchanged: the second dispatch
\* starts from whatever call, result, events and revoked the first one left.
Outcome == [call |-> call, result |-> result, events |-> events]

InitPair ==
  /\ Genesis
  /\ other = EmptyMap
  /\ pending = [call |-> NoCall, result |-> "none", events |-> <<>>]
  /\ turn = "first"
  /\ scen = -1
  /\ last_height = [p \in ProofSet |-> -1]
  /\ former = [p \in ProofSet |-> NoTransfer]

Recorded ==
  /\ turn = "first"
  /\ pending' = Outcome'
  /\ turn' = "swap_in"
  /\ UNCHANGED <<other, scen, histVars>>

Exchange(from, to) ==
  /\ turn = from
  /\ turn' = to
  /\ Proofs' = other
  /\ other' = Proofs
  /\ UNCHANGED <<block_number, call, result, events, revoked, pending, scen,
                 histVars>>

Repeat ==
  /\ turn = "second"
  /\ \/ /\ pending.call.op = "create_claim"
        /\ create_claim(pending.call.origin, pending.call.proof)
     \/ /\ pending.call.op = "revoke_claim"
        /\ revoke_claim(pending.call.origin, pending.call.proof)
     \/ /\ pending.call.op = "change_owner_claim"
        /\ change_owner_claim(pending.call.origin, pending.call.receiver,
                              pending.call.proof)
  /\ turn' = "compare"
  /\ UNCHANGED <<other, pending, scen, histVars>>

NextPair ==
  \/ \E origin \in Origin, proof \in ProofSet :
        create_claim(origin, proof) /\ Recorded
  \/ \E origin \in Origin, proof \in ProofSet :
        revoke_claim(origin, proof) /\ Recorded
  \/ \E origin \in Origin, receiver \in AccountId, proof \in ProofSet :
        change_owner_claim(origin, receiver, proof) /\ Recorded
  \/ Exchange("swap_in", "second")
  \/ Repeat
  \/ Exchange("compare", "first")
  \/ turn = "first" /\ AdvanceBlock /\ UNCHANGED observers

SpecPair == InitPair /\ [][NextPair]_vars

doc1 == <<0>>

Create(who, proof) ==
  [op |-> "create_claim", origin |-> Signed(who), proof |-> proof,
   receiver |-> NoReceiver]

Revoke(who, proof) ==
  [op |-> "revoke_claim", origin |-> Signed(who), proof |-> proof,
   receiver |-> NoReceiver]

Change(who, to, proof) ==
  [op |-> "change_owner_claim", origin |-> Signed(who), proof |-> proof,
   receiver |-> to]

\* the calls in order, each with the block it is dispatched in (-1: any)
Script ==
  << [call |-> Create("Alice", doc1), height |-> 10],
     [call |-> Create("Bob", doc1), height |-> 11],
     [call |-> Change("Bob", "Carol", doc1), height |-> 12],
     [call |-> Change("Alice", "Carol", doc1), height |-> 12],
     [call |-> Revoke("Alice", doc1), height |-> -1],
     [call |-> Revoke("Carol", doc1), height |-> -1] >>

\* what the specification says each call returns and leaves
Expected ==
  << [result |-> "Ok", events |-> << <<"ClaimCreated", "Alice", doc1>> >>,
      ledger |-> [p \in {doc1} |-> <<"Alice", 10>>]],
     [result |-> "ProofAlreadyClaimed", events |-> <<>>,
      ledger |-> [p \in {doc1} |-> <<"Alice", 10>>]],
     [result |-> "NotProofOwner", events |-> <<>>,
      ledger |-> [p \in {doc1} |-> <<"Alice", 10>>]],
     [result |-> "Ok",
      events |-> << <<"ClaimChanged", "Alice", "Carol", doc1>> >>,
      ledger |-> [p \in {doc1} |-> <<"Carol", 12>>]],
     [result |-> "NotProofOwner", events |-> <<>>,
      ledger |-> [p \in {doc1} |-> <<"Carol", 12>>]],
     [result |-> "Ok", events |-> << <<"ClaimRevoked", "Carol", doc1>> >>,
      ledger |-> [p \in {} |-> <<DefaultAccountId, 0>>]] >>

InitScenario ==
  /\ Proofs = EmptyMap
  /\ block_number = Script[1].height
  /\ call = NoCall
  /\ result = "none"
  /\ events = <<>>
  /\ revoked = {}
  /\ other = EmptyMap
  /\ pending = [call |-> NoCall, result |-> "none", events |-> <<>>]
  /\ turn = "off"
  /\ scen = 0
  /\ last_height = [p \in ProofSet |-> -1]
  /\ former = [p \in ProofSet |-> NoTransfer]

\* scen counts the calls of Script dispatched so far, in order and nothing
\* else; any other call ends the count
Follow ==
  /\ scen' = IF /\ scen \in 0..(Len(Script) - 1)
                /\ call' = Script[scen + 1].call
                /\ Script[scen + 1].height \in {-1, block_number}
             THEN scen + 1
             ELSE -1
  /\ UNCHANGED <<pairVars, histVars>>

OpenBlock(last) ==
  /\ block_number < last
  /\ block_number' = block_number + 1
  /\ call' = NoCall
  /\ result' = "none"
  /\ events' = <<>>
  /\ UNCHANGED <<Proofs, revoked>>

NextScenario ==
  \/ \E origin \in Origin, proof \in ProofSet :
        create_claim(origin, proof) /\ Follow
  \/ \E origin \in Origin, proof \in ProofSet :
        revoke_claim(origin, proof) /\ Follow
  \/ \E origin \in Origin, receiver \in AccountId, proof \in ProofSet :
        change_owner_claim(origin, receiver, proof) /\ Follow
  \/ OpenBlock(Script[1].height + MaxBlock) /\ UNCHANGED observers

SpecScenario == InitScenario /\ [][NextScenario]_vars

\* C13: scenario trace. From the empty ledger, create_claim(Alice, doc1) at 10
\* returns Ok with ClaimCreated(Alice, doc1) and leaves {doc1: (Alice, 10)};
\* create_claim(Bob, doc1) at 11 returns ProofAlreadyClaimed;
\* change_owner_claim(Bob, Carol, doc1) at 12 returns NotProofOwner;
\* change_owner_claim(Alice, Carol, doc1) at 12 returns Ok and leaves
\* {doc1: (Carol, 12)}; revoke_claim(Alice, doc1) returns NotProofOwner;
\* revoke_claim(Carol, doc1) returns Ok and leaves the empty ledger.
ScenarioTrace ==
  scen >= 1 =>
     /\ Proofs = Expected[scen].ledger
     /\ call # NoCall =>
           /\ call = Script[scen].call
           /\ result = Expected[scen].result
           /\ events = Expected[scen].events

ScenarioTraceWitness ==
  /\ scen = Len(Script)
  /\ call = Revoke("Carol", doc1)
  /\ result = "Ok"
  /\ Proofs = EmptyMap
  /\ doc1 \in revoked
\* ---- per-proof history ----
InitHist ==
  /\ Genesis
  /\ other = EmptyMap
  /\ pending = [call |-> NoCall, result |-> "none", events |-> <<>>]
  /\ turn = "off"
  /\ scen = -1
  /\ last_height = [p \in ProofSet |-> -1]
  /\ former = [p \in ProofSet |-> NoTransfer]

\* after a dispatch: last_height[p] is the block of the last create_claim or
\* change_owner_claim on p that returned Ok
Track ==
  /\ last_height' =
        IF result' = "Ok" /\ call'.op \in {"create_claim", "change_owner_claim"}
        THEN [last_height EXCEPT ![call'.proof] = block_number]
        ELSE last_height
  /\ UNCHANGED <<pairVars, scen, former>>

NextHist ==
  \/ \E origin \in Origin, proof \in ProofSet :
        create_claim(origin, proof) /\ Track
  \/ \E origin \in Origin, proof \in ProofSet :
        revoke_claim(origin, proof) /\ Track
  \/ \E origin \in Origin, receiver \in AccountId, proof \in ProofSet :
        change_owner_claim(origin, receiver, proof) /\ Track
  \/ AdvanceBlock /\ UNCHANGED observers

SpecHist == InitHist /\ [][NextHist]_vars

\* C14: registered_at tracking. Block numbers never decrease; in every state
\* the stored block of each present proof is the block of the most recent
\* successful create_claim or change_owner_claim on it; the stored block of a
\* proof is never below that of its last successful create or transfer, also
\* after a revoke and a new create; and a failed call or a revoke_claim does
\* not change the stored block of a key that stays present.
RegisteredAtTracking ==
  /\ [](\A p \in DOMAIN Proofs : Proofs[p][2] = last_height[p])
  /\ [][/\ block_number' >= block_number
        /\ \A p \in DOMAIN Proofs' :
              /\ Proofs'[p][2] >= last_height[p]
              /\ (p \in DOMAIN Proofs
                    /\ (result' # "Ok" \/ call'.op = "revoke_claim"))
                    => Proofs'[p][2] = Proofs[p][2]]_vars

RegisteredAtTrackingWitness ==
  /\ call.op = "change_owner_claim"
  /\ result = "Ok"
  /\ call.proof \in revoked
  /\ call.proof \in DOMAIN Proofs
  /\ Proofs[call.proof][2] = block_number
  /\ last_height[call.proof] = block_number
  /\ block_number = MaxBlock
  /\ \E q \in DOMAIN Proofs : Proofs[q][2] < block_number
\* C15: closed lifecycle. In every step and for every proof p: p goes from
\* absent to present only in a create_claim on p that returns Ok; from present
\* to absent only in a revoke_claim on p that returns Ok and is signed by the
\* owner stored before the step; and its stored (owner, block) changes while
\* present only in a change_owner_claim on p that returns Ok and is signed by
\* the owner stored before the step.
ClosedLifecycle ==
  [][\A p \in ProofSet :
       /\ (p \notin DOMAIN Proofs /\ p \in DOMAIN Proofs')
             => /\ call'.op = "create_claim"
                /\ call'.proof = p
                /\ result' = "Ok"
       /\ (p \in DOMAIN Proofs /\ p \notin DOMAIN Proofs')
             => /\ call'.op = "revoke_claim"
                /\ call'.proof = p
                /\ result' = "Ok"
                /\ call'.origin = Signed(Proofs[p][1])
       /\ (p \in DOMAIN Proofs /\ p \in DOMAIN Proofs'
             /\ Proofs'[p] # Proofs[p])
             => /\ call'.op = "change_owner_claim"
                /\ call'.proof = p
                /\ result' = "Ok"
                /\ call'.origin = Signed(Proofs[p][1])]_vars

ClosedLifecycleWitness ==
  /\ call.op = "revoke_claim"
  /\ result = "Ok"
  /\ call.proof \notin DOMAIN Proofs
  /\ \E q \in DOMAIN Proofs :
        /\ q \in revoked
        /\ Proofs[q][1] # call.origin.who
        /\ Proofs[q][2] < block_number

\* C16: per-key frame. Every call of the three dispatchables on proof p,
\* whether it returns Ok or an error, leaves the presence, owner and block of
\* every other proof unchanged; a create_claim that returns Ok adds exactly
\* one key, a revoke_claim that returns Ok removes exactly one key, and a
\* change_owner_claim that returns Ok leaves the key set unchanged.
PerKeyFrame ==
  [][\A p \in ProofSet :
       (call'.op # "none" /\ call'.proof = p)
          => /\ \A q \in ProofSet \ {p} :
                   /\ q \in DOMAIN Proofs <=> q \in DOMAIN Proofs'
                   /\ q \in DOMAIN Proofs => Proofs'[q] = Proofs[q]
             /\ (call'.op = "create_claim" /\ result' = "Ok")
                   => Cardinality(DOMAIN Proofs')
                         = Cardinality(DOMAIN Proofs) + 1
             /\ (call'.op = "revoke_claim" /\ result' = "Ok")
                   => Cardinality(DOMAIN Proofs')
                         = Cardinality(DOMAIN Proofs) - 1
             /\ (call'.op = "change_owner_claim" /\ result' = "Ok")
                   => DOMAIN Proofs' = DOMAIN Proofs]_vars

PerKeyFrameWitness ==
  /\ call.op = "create_claim"
  /\ result = "Ok"
  /\ Cardinality(DOMAIN Proofs) = 2
  /\ \E q \in DOMAIN Proofs \ {call.proof} :
        /\ Proofs[q][1] # call.origin.who
        /\ Proofs[q][2] < block_number
\* ---- who held a proof before its last transfer ----
InitAuthority ==
  /\ Genesis
  /\ other = EmptyMap
  /\ pending = [call |-> NoCall, result |-> "none", events |-> <<>>]
  /\ turn = "off"
  /\ scen = -1
  /\ last_height = [p \in ProofSet |-> -1]
  /\ former = [p \in ProofSet |-> NoTransfer]

\* after a dispatch: if the last operation on p that returned Ok was a
\* transfer to someone else, former[p] holds its sender and its receiver
TrackTransfer ==
  /\ former' =
        IF result' = "Ok"
        THEN [former EXCEPT ![call'.proof] =
                 IF /\ call'.op = "change_owner_claim"
                    /\ call'.receiver # call'.origin.who
                 THEN [from |-> call'.origin.who, to |-> call'.receiver]
                 ELSE NoTransfer]
        ELSE former
  /\ UNCHANGED <<pairVars, scen, last_height>>

NextAuthority ==
  \/ \E origin \in Origin, proof \in ProofSet :
        create_claim(origin, proof) /\ TrackTransfer
  \/ \E origin \in Origin, proof \in ProofSet :
        revoke_claim(origin, proof) /\ TrackTransfer
  \/ \E origin \in Origin, receiver \in AccountId, proof \in ProofSet :
        change_owner_claim(origin, receiver, proof) /\ TrackTransfer
  \/ AdvanceBlock /\ UNCHANGED observers

SpecAuthority == InitAuthority /\ [][NextAuthority]_vars

\* C17: authority moves with the transfer. After change_owner_claim(a, r, p)
\* returned Ok with r different from a, and until the next operation on p that
\* returns Ok, p is present with owner r, every revoke_claim(a, p) and
\* change_owner_claim(a, x, p) returns NotProofOwner, and every
\* revoke_claim(r, p) and change_owner_claim(r, x, p) returns Ok; and in every
\* state a revoke_claim or change_owner_claim on a present proof returns Ok
\* exactly when its signed sender is the stored owner.
AuthorityMoves ==
  /\ [](\A p \in ProofSet :
          former[p] # NoTransfer
             => /\ p \in DOMAIN Proofs
                /\ Proofs[p][1] = former[p].to
                /\ former[p].from # former[p].to)
  /\ [][\A p \in DOMAIN Proofs :
          /\ former[p] # NoTransfer
                => /\ (IsRevoke(p, former[p].from) \/ IsChange(p, former[p].from))
                         => result' = "NotProofOwner"
                   /\ (IsRevoke(p, former[p].to) \/ IsChange(p, former[p].to))
                         => result' = "Ok"
          /\ \A c \in AccountId :
                (IsRevoke(p, c) \/ IsChange(p, c))
                   => (result' = "Ok" <=> c = Proofs[p][1])]_vars

AuthorityMovesWitness ==
  /\ call.op = "revoke_claim"
  /\ result = "NotProofOwner"
  /\ former[call.proof] # NoTransfer
  /\ call.origin = Signed(former[call.proof].from)
  /\ call.proof \in DOMAIN Proofs
  /\ Proofs[call.proof][1] = former[call.proof].to
  /\ Proofs[call.proof][2] < block_number
====
